---- MODULE Spec2Model ----
(***************************************************************************)
(* The contribution timeline analysis of the streak scripts                *)
(* (docs/s.svg/scripts/build-streak.mjs and its copies): the fetched daily *)
(* samples are merged by date, sorted, prefix-summed into the cumulative   *)
(* timeline, scanned backward for the current streak and forward for the   *)
(* streak runs, and the runs are ranked.                                   *)
(*                                                                         *)
(* A calendar date "YYYY-MM-DD" is modelled by its day number (1, 2, ...); *)
(* an instant (a JavaScript Date) by the number of seconds since the       *)
(* midnight that begins day 0.  new Date(date) is the midnight that begins *)
(* the day: DateSec(d) = d * SEC_PER_DAY.                                  *)
(***************************************************************************)
EXTENDS Integers, Sequences, FiniteSets, TLC

VARIABLES pc, now, allDays, byDate, days, timeline, cs, streaks, top

\* one gql call: where it stands, the attempt parameter, the requests sent and
\* not yet answered, the requests sent by this call, the delays it has waited
\* and the responses it has received
VARIABLES gqlPc, attempt, inflight, requests, waits, replies

\* the streak script around the analysis: the token, the account's creation
\* instant, the window cursor, the window being fetched, the calendar the API
\* holds and whether the output file has been written
VARIABLES token, createdAt, cursor, win, calendar, written

\* the frames of the two carousels
VARIABLES sample, mkLeft, mkRight

\* the result of the crimson-flow script's streaks(days)
VARIABLES streakCurrent, streakLongest

\* the trophy carousel: the trophies, their pages, the slides and the total
\* duration
VARIABLES trophies, pages, slides, totalDur

\* the star pagination of the trophies script: the repository pages the API
\* has served, the running sum, the cursor variable and the
\* cursors the requests were sent with
VARIABLES repoPages, starSum, next, asked

analysisVars == <<pc, now, allDays, byDate, days, timeline, cs, streaks, top>>
gqlVars == <<gqlPc, attempt, inflight, requests, waits, replies>>
scriptVars == <<token, createdAt, cursor, win, calendar, written>>
cardVars == <<trophies, pages, slides, totalDur>>
flowVars == <<streakCurrent, streakLongest>>
renderVars == <<sample, mkLeft, mkRight, cardVars, flowVars>>
starVars == <<repoPages, starSum, next, asked>>

\* all but the variables of the analysis
ioVars == <<gqlVars, scriptVars, renderVars, starVars>>

vars == <<analysisVars, gqlVars, scriptVars, renderVars, starVars>>

(* ------------------------------ bounds -------------------------------- *)

\* raw inputs: at most MaxLen samples, in any order, over the days 1..MaxDay
MaxLen == 3
MaxDay == 3
MaxCount == 1
\* gap-free, sorted inputs (what the API returns): the days 1..n, n <= MaxSeries
MaxSeries == 8
SeriesMaxCount == 1
\* inputs with invalid samples: at most MaxInvalidLen samples
MaxInvalidLen == 3
MaxPages == 2
MaxTimeline == 120
MaxTrophies == 8
MaxNodes == 1

(* --------------------------- program constants ------------------------ *)

SEC_PER_DAY == 86400
TOP_N == 3
NULL == 0
MAX_ATTEMPTS == 5
WINDOW_DAYS == 365
MAX_FRAMES == 80
RIGHT_MIN_FRAMES == 1
KEYTIME_SCALE == 1000000
PAGE_SIZE == 2
SLIDE_SEC == 3
FIXED2_SCALE == 100
BACKOFF_MS == 400

(* ------------------------------ helpers ------------------------------- *)

\* a date string that does not parse: new Date(date) is an Invalid Date
BAD_DATE == -1
MISSING == -1

\* new Date(date) is a valid Date
ParseOk(date) == date # BAD_DATE

\* new Date(date): the instant at which the calendar day begins (UTC)
DateSec(date) == date * SEC_PER_DAY

\* new Date(date) > nw: false when the date is invalid (NaN compares false)
IsAfter(date, nw) == ParseOk(date) /\ DateSec(date) > nw

Sample(d, c) == [date |-> d, count |-> c]

\* byDate.get(key) || 0, on the Map kept as its entries in insertion order
MapGetOrZero(m, key) ==
  IF \E k \in 1..Len(m) : m[k].date = key
    THEN (CHOOSE e \in {m[k] : k \in 1..Len(m)} : e.date = key).count
    ELSE 0

\* byDate.set(key, value): an existing key keeps its place, a new key goes last
MapSet(m, key, value) ==
  IF \E k \in 1..Len(m) : m[k].date = key
    THEN [k \in 1..Len(m) |-> IF m[k].date = key THEN Sample(key, value) ELSE m[k]]
    ELSE Append(m, Sample(key, value))

\* a bug the merge could have: the later sample overwrites the earlier one
MergeOneOverwrite(m, d) == MapSet(m, d.date, d.count)

\* the body of the merge loop
MergeOne(m, d) == MapSet(m, d.date, MapGetOrZero(m, d.date) + d.count)

RECURSIVE MergeLoop(_, _, _)
MergeLoop(all, i, m) ==
  IF i > Len(all) THEN m ELSE MergeLoop(all, i + 1, MergeOne(m, all[i]))

\* a bug the sort could have: the comparator's operands swapped
CmpDateSwapped(a, b) == DateSec(b.date) - DateSec(a.date)

\* the comparator of the date sort
CmpDate(a, b) == DateSec(a.date) - DateSec(b.date)

\* Array.prototype.sort is stable: x goes behind every element that does not
\* compare greater than it
InsertByDate(sorted, x) ==
  LET pos == Cardinality({k \in 1..Len(sorted) : CmpDate(sorted[k], x) <= 0})
  IN  SubSeq(sorted, 1, pos) \o <<x>> \o SubSeq(sorted, pos + 1, Len(sorted))

RECURSIVE SortLoop(_, _, _)
SortLoop(s, i, acc) ==
  IF i > Len(s) THEN acc ELSE SortLoop(s, i + 1, InsertByDate(acc, s[i]))

\* a bug the normalisation could have: the entries stay in insertion order
SortByDateMissing(s) == s

SortByDate(s) == SortLoop(s, 1, <<>>)

\* the results sort can give.  With an Invalid Date the comparator returns
\* NaN, which sort takes as 0: the entry compares equal to every other one.
\* Next to two or more valid dates that is no consistent order, and the
\* result is then an implementation-defined ordering of the entries.
SortOutcomes(s) ==
  LET valid == {k \in 1..Len(s) : ParseOk(s[k].date)}
  IN  IF Cardinality(valid) = Len(s) THEN {SortByDate(s)}
      ELSE IF Cardinality(valid) <= 1 THEN {s}
      ELSE {[i \in 1..Len(s) |-> s[f[i]]] : f \in Permutations(1..Len(s))}

(* --------------------------- the analyses ----------------------------- *)

RECURSIVE TimelineLoop(_, _, _)
TimelineLoop(ds, i, run) ==
  IF i > Len(ds) THEN <<>>
  ELSE LET r == run + ds[i].count
       IN  <<[date |-> ds[i].date, total |-> r]>> \o TimelineLoop(ds, i + 1, r)

\* a bug the timeline could have: it counts the days, not the contributions
TimelineCountsDays(ds) == [i \in 1..Len(ds) |-> [date |-> ds[i].date, total |-> i]]

\* a bug the timeline could have: the running sum is not carried forward
TimelineNoCarry(ds) == [i \in 1..Len(ds) |-> [date |-> ds[i].date, total |-> ds[i].count]]

Timeline(ds) == TimelineLoop(ds, 1, 0)

\* a bug the scan could have: a sample after now ends the scan
RECURSIVE CsLoopBreakOnFuture(_, _, _, _)
CsLoopBreakOnFuture(ds, nw, i, c) ==
  IF i < 1 THEN c
  ELSE IF IsAfter(ds[i].date, nw) THEN c
  ELSE IF ds[i].count > 0 THEN CsLoopBreakOnFuture(ds, nw, i - 1, c + 1)
  ELSE c

\* a bug the scan could have: it does not stop at a zero sample
RECURSIVE CsLoopNoBreak(_, _, _, _)
CsLoopNoBreak(ds, nw, i, c) ==
  IF i < 1 THEN c
  ELSE IF IsAfter(ds[i].date, nw) THEN CsLoopNoBreak(ds, nw, i - 1, c)
  ELSE IF ds[i].count > 0 THEN CsLoopNoBreak(ds, nw, i - 1, c + 1)
  ELSE CsLoopNoBreak(ds, nw, i - 1, c)

\* a bug the scan could have: count >= 0 tested, so a zero sample is counted
RECURSIVE CsLoopCountsZero(_, _, _, _)
CsLoopCountsZero(ds, nw, i, c) ==
  IF i < 1 THEN c
  ELSE IF IsAfter(ds[i].date, nw) THEN CsLoopCountsZero(ds, nw, i - 1, c)
  ELSE IF ds[i].count >= 0 THEN CsLoopCountsZero(ds, nw, i - 1, c + 1)
  ELSE c

RECURSIVE CsLoop(_, _, _, _)
CsLoop(ds, nw, i, c) ==
  IF i < 1 THEN c
  ELSE IF IsAfter(ds[i].date, nw) THEN CsLoop(ds, nw, i - 1, c)
  ELSE IF ds[i].count > 0 THEN CsLoop(ds, nw, i - 1, c + 1)
  ELSE c

CurrentStreak(ds, nw) == CsLoop(ds, nw, Len(ds), 0)

\* a bug the record could have: the length short by one
RunLenShort(s, e, l) == [start |-> s, end |-> e, len |-> l - 1]

Run(s, e, l) == [start |-> s, end |-> e, len |-> l]

\* a bug the scan could have: the start of the open run is not kept
ScanStateStartLost(st, c, s) == [streaks |-> st, cur |-> c, start |-> NULL]

\* the loop state of the streak scan
ScanState(st, c, s) == [streaks |-> st, cur |-> c, start |-> s]

\* a bug the scan could have: the closing zero sample taken as the run's end
ScanStepEndAtBreak(ds, i, st) ==
  IF ds[i].count > 0
    THEN ScanState(st.streaks, st.cur + 1, IF st.cur = 0 THEN ds[i].date ELSE st.start)
  ELSE IF st.cur > 0
    THEN ScanState(Append(st.streaks, Run(st.start, ds[i].date, st.cur)), 0, NULL)
  ELSE st

\* one iteration of the scan, the closed run ending at the sample before i
ScanStep(ds, i, st) ==
  IF ds[i].count > 0
    THEN ScanState(st.streaks, st.cur + 1, IF st.cur = 0 THEN ds[i].date ELSE st.start)
  ELSE IF st.cur > 0
    THEN ScanState(Append(st.streaks, Run(st.start, ds[i - 1].date, st.cur)), 0, NULL)
  ELSE st

\* days.indexOf(d): the first index holding d (the samples of days are distinct
\* objects, and distinct by date after the merge)
IndexOf(ds, d) ==
  IF \E k \in 1..Len(ds) : ds[k] = d
    THEN CHOOSE k \in 1..Len(ds) : ds[k] = d /\ \A j \in 1..(k - 1) : ds[j] # d
    ELSE 0

\* one iteration of the for-of variant, which finds the previous sample by
\* days.indexOf(d) - 1
ScanStepIndexOf(ds, i, st) ==
  LET d == ds[i]
  IN  IF d.count > 0
        THEN ScanState(st.streaks, st.cur + 1, IF st.cur = 0 THEN d.date ELSE st.start)
      ELSE IF st.cur > 0
        THEN ScanState(Append(st.streaks, Run(st.start, ds[IndexOf(ds, d) - 1].date, st.cur)),
                       0, NULL)
      ELSE st

RECURSIVE ScanLoop(_, _, _)
ScanLoop(ds, i, st) ==
  IF i > Len(ds) THEN st ELSE ScanLoop(ds, i + 1, ScanStep(ds, i, st))

RECURSIVE ScanLoopIndexOf(_, _, _)
ScanLoopIndexOf(ds, i, st) ==
  IF i > Len(ds) THEN st ELSE ScanLoopIndexOf(ds, i + 1, ScanStepIndexOf(ds, i, st))

\* a bug the scan could have: the run open at the end of the series is dropped
CloseOpenRunDropped(ds, st) == st.streaks

\* a bug the scan could have: the closing push not guarded by cur > 0 (the end
\* read with ?. so that an empty series does not throw)
CloseOpenRunUnguarded(ds, st) ==
  Append(st.streaks, Run(st.start, IF ds = <<>> THEN NULL ELSE ds[Len(ds)].date, st.cur))

\* after the loop: the run still open is recorded, ending at the last sample
CloseOpenRun(ds, st) ==
  IF st.cur > 0
    THEN Append(st.streaks, Run(st.start, ds[Len(ds)].date, st.cur))
    ELSE st.streaks

Streaks(ds) == CloseOpenRun(ds, ScanLoop(ds, 1, ScanState(<<>>, 0, NULL)))

StreaksIndexOf(ds) == CloseOpenRun(ds, ScanLoopIndexOf(ds, 1, ScanState(<<>>, 0, NULL)))

\* a bug the ranking could have: ascending order, the shortest run first
CmpLenAscending(a, b) == a.len - b.len

\* the comparator of the ranking
CmpLen(a, b) == b.len - a.len

\* a bug the ranking could have: an unstable sort, equal runs in reverse order
InsertByLenUnstable(sorted, x) ==
  LET pos == Cardinality({k \in 1..Len(sorted) : CmpLen(sorted[k], x) < 0})
  IN  SubSeq(sorted, 1, pos) \o <<x>> \o SubSeq(sorted, pos + 1, Len(sorted))

InsertByLen(sorted, x) ==
  LET pos == Cardinality({k \in 1..Len(sorted) : CmpLen(sorted[k], x) <= 0})
  IN  SubSeq(sorted, 1, pos) \o <<x>> \o SubSeq(sorted, pos + 1, Len(sorted))

RECURSIVE RankLoop(_, _, _)
RankLoop(s, i, acc) ==
  IF i > Len(s) THEN acc ELSE RankLoop(s, i + 1, InsertByLen(acc, s[i]))

\* slice(0, n)
Slice0(s, n) == SubSeq(s, 1, IF n < Len(s) THEN n ELSE Len(s))

\* a bug the ranking could have: the first three runs are taken, then sorted
TopSliceFirst(st) == RankLoop(Slice0(st, TOP_N), 1, <<>>)

Top(st) == Slice0(RankLoop(st, 1, <<>>), TOP_N)

(* ------------------------------ gql ----------------------------------- *)

\* the statuses the endpoint answers with
Statuses == {200, 404, 500, 503}

\* r.ok
IsOk(status) == status >= 200 /\ status <= 299

\* a bug the retry could have: attempt <= 5 tested, one retry too many
ShouldRetryOffByOne(status, att) == status >= 500 /\ att <= MAX_ATTEMPTS

\* r.status >= 500 && attempt < 5
ShouldRetry(status, att) == status >= 500 /\ att < MAX_ATTEMPTS

\* setTimeout(res, attempt * 400)
BackoffMs(att) == att * BACKOFF_MS

\* a response: its status and whether its JSON body has an errors field
\* (only the body of an OK response is parsed)
Reply(status, errors) == [status |-> status, errors |-> errors]

\* a bug the call could have: the errors field is not looked at
OutcomeIgnoresErrors(status, errors) == IF ~IsOk(status) THEN "threw" ELSE "returned"

\* how the call ends on a reply that is not retried: "threw" or "returned"
Outcome(status, errors) ==
  IF ~IsOk(status) THEN "threw"
  ELSE IF errors THEN "threw"
  ELSE "returned"

\* no call is running
GqlIdle ==
  /\ gqlPc = "idle"
  /\ attempt = 1
  /\ inflight = 0
  /\ requests = 0
  /\ waits = <<>>
  /\ replies = <<>>

\* gql(query, variables): attempt = 1 and the first fetch is sent
StartCall ==
  /\ gqlPc \in {"idle", "returned"}
  /\ gqlPc' = "fetching"
  /\ attempt' = 1
  /\ inflight' = inflight + 1
  /\ requests' = 1
  /\ waits' = <<>>
  /\ replies' = <<>>

\* the awaited call has returned its data: nothing of the call remains
GqlReset ==
  /\ gqlPc' = "idle"
  /\ attempt' = 1
  /\ inflight' = 0
  /\ requests' = 0
  /\ waits' = <<>>
  /\ replies' = <<>>

\* await fetch(...) resolves with a status; a 5xx status before the fifth
\* attempt starts the backoff timer, any other reply ends the call
GqlReply ==
  /\ gqlPc = "fetching"
  /\ \E status \in Statuses, errors \in BOOLEAN :
       /\ errors => IsOk(status)
       /\ replies' = Append(replies, Reply(status, errors))
       /\ inflight' = inflight - 1
       /\ IF ShouldRetry(status, attempt)
            THEN /\ gqlPc' = "backoff"
                 /\ waits' = Append(waits, BackoffMs(attempt))
            ELSE /\ gqlPc' = Outcome(status, errors)
                 /\ waits' = waits
  /\ UNCHANGED <<attempt, requests>>
  /\ UNCHANGED <<analysisVars, scriptVars, renderVars, starVars>>

\* the timer fires: return gql(query, variables, attempt + 1)
GqlRetry ==
  /\ gqlPc = "backoff"
  /\ gqlPc' = "fetching"
  /\ attempt' = attempt + 1
  /\ inflight' = inflight + 1
  /\ requests' = requests + 1
  /\ UNCHANGED <<waits, replies>>
  /\ UNCHANGED <<analysisVars, scriptVars, renderVars, starVars>>

(* ------------------------------ token --------------------------------- *)

\* a bug the check could have: the script goes on without a token
TokenMissingIgnored(tok) == FALSE

\* !GH_TOKEN, the token being TRUE when the environment variable holds a
\* non-empty string
TokenMissing(tok) == ~tok

(* ------------------------------ fetch loop ---------------------------- *)

\* the day an instant falls on (UTC)
DayOf(t) == t \div SEC_PER_DAY

\* new Date(Date.UTC(year, month, date)) of an instant: its UTC midnight
UtcMidnight(t) == DayOf(t) * SEC_PER_DAY

\* addDays(d, n): setUTCDate(getUTCDate() + n)
AddDays(t, n) == t + n * SEC_PER_DAY

\* a bug the window could have: its end is not capped at now
WinToUncapped(to, nw) == to

\* to < now ? to : now
WinTo(to, nw) == IF to < nw THEN to ELSE nw

\* a bug the loop could have: it stops one window early
LoopCondStopsEarly(cur, nw) == AddDays(cur, WINDOW_DAYS) < nw

\* while (cursor < now)
LoopCond(cur, nw) == cur < nw

\* the contributionDays of a window: the days of the calendar from the day
\* of `from` through the day of `to`, as { date, count }
Response(cal, w) ==
  SelectSeq(cal, LAMBDA s : DayOf(w.from) <= s.date /\ s.date <= DayOf(w.to))

(* ------------------------------ carousels ----------------------------- *)

\* a bug the sampling could have: Math.floor in place of Math.round
FloorDiv(num, den) == num \div den

\* Math.round(x) for x = num / den >= 0
RoundDiv(num, den) == (2 * num + den) \div (2 * den)

\* Math.max(a, b)
Max(a, b) == IF a >= b THEN a ELSE b

\* the sample of the timeline: all of it up to MAX_FRAMES points, else
\* MAX_FRAMES points at Math.round(i * step), step = (n - 1) / (MAX_FRAMES - 1)
SampleOf(tl) ==
  IF Len(tl) <= MAX_FRAMES THEN tl
  ELSE [j \in 1..MAX_FRAMES |->
          tl[RoundDiv((j - 1) * (Len(tl) - 1), MAX_FRAMES - 1) + 1]]

\* (k / frames).toFixed(6), in millionths
KeyTime(k, frames) == RoundDiv(k * KEYTIME_SCALE, frames)

\* (k === i || k === i + 1) ? 1 : 0
OpacityAt(k, i) == IF k = i \/ k = i + 1 THEN 1 ELSE 0

\* the <animate> of frame i (from 0) of a carousel of `frames` slots: entry
\* k + 1 of keyTimes and values is the one pushed for k
Frame(i, frames) ==
  [keyTimes |-> [k \in 1..(frames + 1) |-> KeyTime(k - 1, frames)],
   values |-> [k \in 1..(frames + 1) |-> OpacityAt(k - 1, i)]]

\* items.map((p, i) => frame i)
MkFrames(n, frames) == [j \in 1..n |-> Frame(j - 1, frames)]

(* ------------------------------ star pagination ---------------------- *)

\* b.stargazerCount || 0
OrZero(x) == IF x = MISSING THEN 0 ELSE x

RECURSIVE SumStars(_)
\* r.nodes.reduce((a, b) => a + (b.stargazerCount || 0), 0)
SumStars(nodes) ==
  IF nodes = <<>> THEN 0
  ELSE SumStars(SubSeq(nodes, 1, Len(nodes) - 1)) + OrZero(nodes[Len(nodes)])

\* a bug the loop could have: the cursor is never carried over
NextCursorNeverSet(hasNextPage, endCursor) == NULL

\* r.pageInfo.hasNextPage ? r.pageInfo.endCursor : null
NextCursor(hasNextPage, endCursor) == IF hasNextPage THEN endCursor ELSE NULL

\* while (next): a cursor is a non-empty string, null is falsy
Truthy(c) == c # NULL

(* ------------------------------ crimson-flow streaks ------------------ *)

\* the loop state of streaks(days)
FlowState(c, b) == [curr |-> c, best |-> b]

\* a bug the loop could have: curr is not reset on a day without contribution
FlowStepNoReset(st, d) ==
  IF d.count > 0 THEN FlowState(st.curr + 1, Max(st.best, st.curr + 1)) ELSE st

\* if (d.count > 0) { curr++; best = Math.max(best, curr); } else curr = 0
FlowStep(st, d) ==
  IF d.count > 0 THEN FlowState(st.curr + 1, Max(st.best, st.curr + 1))
  ELSE FlowState(0, st.best)

RECURSIVE FlowLoop(_, _, _)
\* for (const d of days) ...
FlowLoop(ds, i, st) ==
  IF i > Len(ds) THEN st ELSE FlowLoop(ds, i + 1, FlowStep(st, ds[i]))

RECURSIVE FlowCurrentLoop(_, _, _)
\* for (let i = days.length - 1; i >= 0 && days[i].count > 0; i--) cs++
FlowCurrentLoop(ds, i, c) ==
  IF i >= 1 /\ ds[i].count > 0 THEN FlowCurrentLoop(ds, i - 1, c + 1) ELSE c

\* streaks(days)
FlowStreaks(ds) ==
  [current |-> FlowCurrentLoop(ds, Len(ds), 0),
   longest |-> FlowLoop(ds, 1, FlowState(0, 0)).best]

\* streaks(days) has not been called
FlowIdle ==
  /\ streakCurrent = 0
  /\ streakLongest = 0

(* ------------------------------ trophy pages -------------------------- *)

\* a bug the chunking could have: slice(i, i + 1), the second card lost
SliceOne(s, from, to) == SubSeq(s, from + 1, IF from < Len(s) THEN from + 1 ELSE Len(s))

\* s.slice(from, to) for 0 <= from <= to
Slice(s, from, to) == SubSeq(s, from + 1, IF to < Len(s) THEN to ELSE Len(s))

RECURSIVE ChunkLoop(_, _, _)
\* for (let i = 0; i < trophies.length; i += 2) pages.push(trophies.slice(i, i + 2))
ChunkLoop(tr, i, pgs) ==
  IF i < Len(tr)
    THEN ChunkLoop(tr, i + PAGE_SIZE, Append(pgs, Slice(tr, i, i + PAGE_SIZE)))
    ELSE pgs

\* x.toFixed(2) of an integer x, in hundredths
Fixed2(x) == x * FIXED2_SCALE

\* the slide of page i (from 0): card(pg[0]), card(pg[1]) when pg[1] is
\* there, and the animateTransform with begin (i * 3).toFixed(2) and dur 3s
Slide(pg, i) ==
  [cards |-> IF Len(pg) >= 2 THEN <<pg[1], pg[2]>> ELSE <<pg[1]>>,
   begin |-> Fixed2(i * SLIDE_SEC),
   dur |-> Fixed2(SLIDE_SEC)]

\* pages.forEach((pg, i) => { slides += ... })
Slides(pgs) == [j \in 1..Len(pgs) |-> Slide(pgs[j], j - 1)]

\* (pages.length * 3).toFixed(2)
TotalDur(pgs) == Fixed2(Len(pgs) * SLIDE_SEC)

\* no trophy carousel is being built
CardsIdle ==
  /\ trophies = <<>>
  /\ pages = <<>>
  /\ slides = <<>>
  /\ totalDur = 0

(* ------------------------------ inputs -------------------------------- *)

SeqsUpTo(S, n) == UNION {[1..k -> S] : k \in 0..n}

RawSamples == {Sample(d, c) : d \in 1..MaxDay, c \in 0..MaxCount}

\* now at the midnight that begins a day (a sample of that day is not after
\* it), or one second before the first day (every sample is after it)
RawNow == {DateSec(1) - 1} \cup {DateSec(d) : d \in 1..MaxDay}

\* what the calendar query returns: every day from 1 to n, in order
SeriesInputs ==
  UNION {{[i \in 1..n |-> Sample(i, f[i])] : f \in [1..n -> 0..SeriesMaxCount]} :
         n \in 0..MaxSeries}

SeriesNow == {DateSec(MaxSeries - 1), DateSec(MaxSeries)}

\* samples no calendar response holds: an unparseable date, a negative count
InvalidSamples ==
  {Sample(BAD_DATE, c) : c \in 0..MaxCount} \cup {Sample(d, -1) : d \in 1..MaxDay}

\* the orderings of the sequence s
Orderings(s) ==
  {[i \in 1..Len(s) |-> s[f[i]]] : f \in Permutations(1..Len(s))}

\* the worked example: five consecutive days with the counts 1, 0, 2, 3, 0
ExampleDays == <<Sample(1, 1), Sample(2, 0), Sample(3, 2), Sample(4, 3), Sample(5, 0)>>

\* now on the fifth day: at its first or at its last second
ExampleNow == {DateSec(5), DateSec(6) - 1}

(* --------------------------- the pipeline ----------------------------- *)

\* the state of everything but the analysis when the analysis runs alone
IoIdle ==
  /\ GqlIdle
  /\ token = TRUE
  /\ createdAt = 0
  /\ cursor = 0
  /\ win = <<>>
  /\ calendar = <<>>
  /\ written = FALSE
  /\ sample = <<>>
  /\ mkLeft = <<>>
  /\ mkRight = <<>>
  /\ CardsIdle
  /\ FlowIdle
  /\ repoPages = <<>>
  /\ starSum = 0
  /\ next = NULL
  /\ asked = <<>>

Blank ==
  /\ IoIdle
  /\ pc = "merge"
  /\ byDate = <<>>
  /\ days = <<>>
  /\ timeline = <<>>
  /\ cs = 0
  /\ streaks = <<>>
  /\ top = <<>>

InitRaw ==
  /\ allDays \in SeqsUpTo(RawSamples, MaxLen)
  /\ now \in RawNow
  /\ Blank

InitSeries ==
  /\ allDays \in SeriesInputs
  /\ now \in SeriesNow
  /\ Blank

\* the worked example, its samples fetched in any order
InitExample ==
  /\ allDays \in Orderings(ExampleDays)
  /\ now \in ExampleNow
  /\ Blank

\* a collection holding at least one invalid sample
InitInvalid ==
  /\ allDays \in SeqsUpTo(RawSamples \cup InvalidSamples, MaxInvalidLen)
  /\ \E k \in 1..Len(allDays) : allDays[k] \in InvalidSamples
  /\ now \in RawNow
  /\ Blank

Init == InitRaw

\* const byDate = new Map(); for (const d of allDays) byDate.set(...)
Merge ==
  /\ pc = "merge"
  /\ byDate' = MergeLoop(allDays, 1, <<>>)
  /\ pc' = "sort"
  /\ UNCHANGED <<now, allDays, days, timeline, cs, streaks, top>>
  /\ UNCHANGED ioVars

\* const days = [...byDate.entries()].map(...).sort(...)
SortDays ==
  /\ pc = "sort"
  /\ days' \in SortOutcomes(byDate)
  /\ pc' = "timeline"
  /\ UNCHANGED <<now, allDays, byDate, timeline, cs, streaks, top>>
  /\ UNCHANGED ioVars

\* const timeline = days.map(d => ({ date, total: (run += d.count) }))
CumulativeTimeline ==
  /\ pc = "timeline"
  /\ timeline' = Timeline(days)
  /\ pc' = "cs"
  /\ UNCHANGED <<now, allDays, byDate, days, cs, streaks, top>>
  /\ UNCHANGED ioVars

\* let cs = 0; for (let i = days.length - 1; i >= 0; i--) ...
ScanCurrentStreak ==
  /\ pc = "cs"
  /\ cs' = CurrentStreak(days, now)
  /\ pc' = "streaks"
  /\ UNCHANGED <<now, allDays, byDate, days, timeline, streaks, top>>
  /\ UNCHANGED ioVars

\* the indexed scan of build-streak.mjs
LongestStreaks ==
  /\ pc = "streaks"
  /\ streaks' = Streaks(days)
  /\ pc' = "top"
  /\ UNCHANGED <<now, allDays, byDate, days, timeline, cs, top>>
  /\ UNCHANGED ioVars

\* the for-of scan of the streak script kept in generate-crimson-flow.mjs
LongestStreaksIndexOf ==
  /\ pc = "streaks"
  /\ streaks' = StreaksIndexOf(days)
  /\ pc' = "top"
  /\ UNCHANGED <<now, allDays, byDate, days, timeline, cs, top>>
  /\ UNCHANGED ioVars

\* const top = [...streaks].sort((a, b) => b.len - a.len).slice(0, 3)
RankTop ==
  /\ pc = "top"
  /\ top' = Top(streaks)
  /\ pc' = "done"
  /\ UNCHANGED <<now, allDays, byDate, days, timeline, cs, streaks>>
  /\ UNCHANGED ioVars

Next ==
  \/ Merge
  \/ SortDays
  \/ CumulativeTimeline
  \/ ScanCurrentStreak
  \/ LongestStreaks
  \/ LongestStreaksIndexOf
  \/ RankTop

\* one gql call made on its own
InitGql ==
  /\ IoIdle
  /\ pc = "call"
  /\ now = 0
  /\ allDays = <<>>
  /\ byDate = <<>>
  /\ days = <<>>
  /\ timeline = <<>>
  /\ cs = 0
  /\ streaks = <<>>
  /\ top = <<>>

\* await gql(...)
GqlCall ==
  /\ pc = "call"
  /\ StartCall
  /\ pc' = "await"
  /\ UNCHANGED <<now, allDays, byDate, days, timeline, cs, streaks, top>>
  /\ UNCHANGED <<scriptVars, renderVars, starVars>>

NextGql ==
  \/ GqlCall
  \/ GqlReply
  \/ GqlRetry

\* one gql call, for any replies of the endpoint
SpecGql == InitGql /\ [][NextGql]_vars

\* the same, every request being answered and every timer firing
SpecGqlFair == SpecGql /\ WF_vars(NextGql)

(* ------------------------------ streak script ------------------------ *)

\* the days of the calendar the model follows: the creation day, and the day
\* one window later with the day after it; the calendar's other days have
\* count 0 and are left out of the responses
TrackedDays == <<1, 1 + WINDOW_DAYS, 2 + WINDOW_DAYS>>

\* the calendars the API may hold
Calendars ==
  {[i \in 1..Len(TrackedDays) |-> Sample(TrackedDays[i], c[i])] :
     c \in [1..Len(TrackedDays) -> 0..MaxCount]}

\* who.user.createdAt: midnight or noon of day 1
CreatedInstants == {DateSec(1), DateSec(1) + SEC_PER_DAY \div 2}

\* new Date(): later on day 1, one window after the creation day to the
\* second, one second later, on the next day, and in the third window
NowInstants ==
  {DateSec(2) - 1,
   DateSec(1 + WINDOW_DAYS),
   DateSec(1 + WINDOW_DAYS) + 1,
   DateSec(2 + WINDOW_DAYS) + SEC_PER_DAY \div 2,
   DateSec(1 + 2 * WINDOW_DAYS) + SEC_PER_DAY \div 2}

InitScript ==
  /\ GqlIdle
  /\ token \in BOOLEAN
  /\ calendar \in Calendars
  /\ pc = "token"
  /\ now = 0
  /\ createdAt = 0
  /\ cursor = 0
  /\ win = <<>>
  /\ written = FALSE
  /\ allDays = <<>>
  /\ byDate = <<>>
  /\ days = <<>>
  /\ timeline = <<>>
  /\ cs = 0
  /\ streaks = <<>>
  /\ top = <<>>
  /\ sample = <<>>
  /\ mkLeft = <<>>
  /\ mkRight = <<>>
  /\ CardsIdle
  /\ FlowIdle
  /\ repoPages = <<>>
  /\ starSum = 0
  /\ next = NULL
  /\ asked = <<>>

\* if (!GH_TOKEN) throw new Error("PAT_GITHUB env missing")
CheckToken ==
  /\ pc = "token"
  /\ pc' = IF TokenMissing(token) THEN "threw" ELSE "who"
  /\ UNCHANGED <<now, allDays, byDate, days, timeline, cs, streaks, top>>
  /\ UNCHANGED <<gqlVars, scriptVars, renderVars, starVars>>

\* const who = await gql(qUser, { login: USER }): the call is made
CallWho ==
  /\ pc = "who"
  /\ StartCall
  /\ pc' = "whoAwait"
  /\ UNCHANGED <<now, allDays, byDate, days, timeline, cs, streaks, top>>
  /\ UNCHANGED <<scriptVars, renderVars, starVars>>

\* the call returns: createdAt, now and the cursor are set
WhoDone ==
  /\ pc = "whoAwait"
  /\ gqlPc = "returned"
  /\ GqlReset
  /\ \E c \in CreatedInstants, n \in NowInstants :
       /\ c < n
       /\ createdAt' = c
       /\ now' = n
       /\ cursor' = UtcMidnight(c)
  /\ pc' = "loop"
  /\ UNCHANGED <<allDays, byDate, days, timeline, cs, streaks, top>>
  /\ UNCHANGED <<token, win, calendar, written>>
  /\ UNCHANGED <<renderVars, starVars>>

\* while (cursor < now) holds: the window is computed and its query sent
FetchWindow ==
  /\ pc = "loop"
  /\ LoopCond(cursor, now)
  /\ win' = [from |-> cursor, to |-> WinTo(AddDays(cursor, WINDOW_DAYS), now)]
  /\ StartCall
  /\ pc' = "winAwait"
  /\ UNCHANGED <<now, allDays, byDate, days, timeline, cs, streaks, top>>
  /\ UNCHANGED <<token, createdAt, cursor, calendar, written>>
  /\ UNCHANGED <<renderVars, starVars>>

\* the window's call returns: allDays.push(...days); cursor = to
WindowDone ==
  /\ pc = "winAwait"
  /\ gqlPc = "returned"
  /\ GqlReset
  /\ allDays' = allDays \o Response(calendar, win)
  /\ cursor' = AddDays(cursor, WINDOW_DAYS)
  /\ pc' = "loop"
  /\ UNCHANGED <<now, byDate, days, timeline, cs, streaks, top>>
  /\ UNCHANGED <<token, createdAt, win, calendar, written>>
  /\ UNCHANGED <<renderVars, starVars>>

\* while (cursor < now) fails: the statements after the loop run
LoopExit ==
  /\ pc = "loop"
  /\ ~LoopCond(cursor, now)
  /\ pc' = "merge"
  /\ UNCHANGED <<now, allDays, byDate, days, timeline, cs, streaks, top>>
  /\ UNCHANGED <<gqlVars, scriptVars, renderVars, starVars>>

\* a gql call throws: the top-level await rethrows and the script ends
ScriptThrows ==
  /\ pc \in {"whoAwait", "winAwait", "tWhoAwait", "starsAwait", "totalsAwait"}
  /\ gqlPc = "threw"
  /\ pc' = "threw"
  /\ UNCHANGED <<now, allDays, byDate, days, timeline, cs, streaks, top>>
  /\ UNCHANGED <<gqlVars, scriptVars, renderVars, starVars>>

\* const sample = ...
TakeSample ==
  /\ pc = "done"
  /\ sample' = SampleOf(timeline)
  /\ pc' = "left"
  /\ UNCHANGED <<now, allDays, byDate, days, timeline, cs, streaks, top>>
  /\ UNCHANGED <<mkLeft, mkRight>>
  /\ UNCHANGED <<cardVars, flowVars>>
  /\ UNCHANGED <<gqlVars, scriptVars, starVars>>

\* const mkLeft = sample.map(...), LEFT_FRAMES = sample.length
MkLeft ==
  /\ pc = "left"
  /\ mkLeft' = MkFrames(Len(sample), Len(sample))
  /\ pc' = "right"
  /\ UNCHANGED <<now, allDays, byDate, days, timeline, cs, streaks, top>>
  /\ UNCHANGED <<sample, mkRight>>
  /\ UNCHANGED <<cardVars, flowVars>>
  /\ UNCHANGED <<gqlVars, scriptVars, starVars>>

\* const mkRight = top.map(...), RIGHT_FRAMES = Math.max(1, top.length)
MkRight ==
  /\ pc = "right"
  /\ mkRight' = MkFrames(Len(top), Max(RIGHT_MIN_FRAMES, Len(top)))
  /\ pc' = "write"
  /\ UNCHANGED <<now, allDays, byDate, days, timeline, cs, streaks, top>>
  /\ UNCHANGED <<sample, mkLeft>>
  /\ UNCHANGED <<cardVars, flowVars>>
  /\ UNCHANGED <<gqlVars, scriptVars, starVars>>

\* await fs.mkdir(...); await fs.writeFile(OUT, svg, "utf8")
WriteFile ==
  /\ pc = "write"
  /\ written' = TRUE
  /\ pc' = "end"
  /\ UNCHANGED <<now, allDays, byDate, days, timeline, cs, streaks, top>>
  /\ UNCHANGED <<token, createdAt, cursor, win, calendar>>
  /\ UNCHANGED <<gqlVars, renderVars, starVars>>

NextScript ==
  \/ CheckToken
  \/ CallWho
  \/ WhoDone
  \/ FetchWindow
  \/ WindowDone
  \/ LoopExit
  \/ ScriptThrows
  \/ GqlReply
  \/ GqlRetry
  \/ Next
  \/ TakeSample
  \/ MkLeft
  \/ MkRight
  \/ WriteFile

\* the streak script from its first statement to the written file
SpecScript == InitScript /\ [][NextScript]_vars

(* ------------------------------ trophies script ---------------------- *)

\* the stargazerCount a node may carry: absent, zero, positive
StarValues == {MISSING, 0, 1}

\* the nodes a page may carry
PageNodes == SeqsUpTo(StarValues, MaxNodes)

\* page k of the owner's repositories as the API serves it: its nodes,
\* whether a page follows, and its endCursor (the opaque string "k")
Page(nodes, more, k) == [nodes |-> nodes, hasNextPage |-> more, endCursor |-> k]

InitTrophies ==
  /\ GqlIdle
  /\ token \in BOOLEAN
  /\ pc = "tToken"
  /\ now = 0
  /\ createdAt = 0
  /\ cursor = 0
  /\ win = <<>>
  /\ calendar = <<>>
  /\ written = FALSE
  /\ allDays = <<>>
  /\ byDate = <<>>
  /\ days = <<>>
  /\ timeline = <<>>
  /\ cs = 0
  /\ streaks = <<>>
  /\ top = <<>>
  /\ sample = <<>>
  /\ mkLeft = <<>>
  /\ mkRight = <<>>
  /\ CardsIdle
  /\ FlowIdle
  /\ repoPages = <<>>
  /\ starSum = 0
  /\ next = NULL
  /\ asked = <<>>

\* if (!GH_TOKEN) throw new Error("PAT_GITHUB env missing")
TrophiesCheckToken ==
  /\ pc = "tToken"
  /\ pc' = IF TokenMissing(token) THEN "threw" ELSE "tWho"
  /\ UNCHANGED <<now, allDays, byDate, days, timeline, cs, streaks, top>>
  /\ UNCHANGED <<gqlVars, scriptVars, renderVars, starVars>>

\* const who = await gql(qUser, { login: USER }): the call is made
TrophiesCallWho ==
  /\ pc = "tWho"
  /\ StartCall
  /\ pc' = "tWhoAwait"
  /\ UNCHANGED <<now, allDays, byDate, days, timeline, cs, streaks, top>>
  /\ UNCHANGED <<scriptVars, renderVars, starVars>>

\* the call returns (fromISO and nowISO only parameterise the totals query),
\* then starSum = 0, next = null
TrophiesWhoDone ==
  /\ pc = "tWhoAwait"
  /\ gqlPc = "returned"
  /\ GqlReset
  /\ starSum' = 0
  /\ next' = NULL
  /\ pc' = "stars"
  /\ UNCHANGED <<now, allDays, byDate, days, timeline, cs, streaks, top>>
  /\ UNCHANGED scriptVars
  /\ UNCHANGED <<repoPages, asked>>
  /\ UNCHANGED renderVars

\* do { const d = await gql(q, { login: USER, cursor: next }): the call is made
StarFetch ==
  /\ pc = "stars"
  /\ StartCall
  /\ asked' = Append(asked, next)
  /\ pc' = "starsAwait"
  /\ UNCHANGED <<now, allDays, byDate, days, timeline, cs, streaks, top>>
  /\ UNCHANGED <<repoPages, starSum, next>>
  /\ UNCHANGED <<scriptVars, renderVars>>

\* the call returns the page after the cursor it was sent with; starSum and
\* next are updated and while (next) is tested
StarPageDone ==
  /\ pc = "starsAwait"
  /\ gqlPc = "returned"
  /\ GqlReset
  /\ \E nodes \in PageNodes, more \in BOOLEAN :
       /\ more => Len(repoPages) + 1 < MaxPages
       /\ LET r == Page(nodes, more, Len(repoPages) + 1)
          IN /\ repoPages' = Append(repoPages, r)
             /\ starSum' = starSum + SumStars(r.nodes)
             /\ next' = NextCursor(r.hasNextPage, r.endCursor)
  /\ pc' = IF Truthy(next') THEN "stars" ELSE "totals"
  /\ UNCHANGED <<now, allDays, byDate, days, timeline, cs, streaks, top>>
  /\ UNCHANGED asked
  /\ UNCHANGED <<scriptVars, renderVars>>

\* const d = await gql(qTotals, ...): the call is made
TotalsFetch ==
  /\ pc = "totals"
  /\ StartCall
  /\ pc' = "totalsAwait"
  /\ UNCHANGED <<now, allDays, byDate, days, timeline, cs, streaks, top>>
  /\ UNCHANGED <<scriptVars, renderVars, starVars>>

\* the call returns; the trophies are laid out and the file is written
TrophiesWrite ==
  /\ pc = "totalsAwait"
  /\ gqlPc = "returned"
  /\ GqlReset
  /\ written' = TRUE
  /\ pc' = "end"
  /\ UNCHANGED <<now, allDays, byDate, days, timeline, cs, streaks, top>>
  /\ UNCHANGED <<token, createdAt, cursor, win, calendar>>
  /\ UNCHANGED <<renderVars, starVars>>

NextTrophies ==
  \/ TrophiesCheckToken
  \/ TrophiesCallWho
  \/ TrophiesWhoDone
  \/ StarFetch
  \/ StarPageDone
  \/ TotalsFetch
  \/ TrophiesWrite
  \/ ScriptThrows
  \/ GqlReply
  \/ GqlRetry

\* the trophies script from its first statement to the written file
SpecTrophies == InitTrophies /\ [][NextTrophies]_vars

\* the same, every enabled statement being run, every request answered and
\* every timer firing
SpecScriptFair == SpecScript /\ WF_vars(NextScript)

\* a long account: one contribution on each day from day 1 to day n
LongSeries == {[i \in 1..n |-> Sample(i, 1)] : n \in 0..MaxTimeline}

\* the state the analysis of a long series ends in: the series is sorted and
\* has no duplicate, the timeline counts the days, and the days form one run
InitLong ==
  /\ IoIdle
  /\ allDays \in LongSeries
  /\ now = DateSec(MaxTimeline)
  /\ pc = "done"
  /\ byDate = allDays
  /\ days = allDays
  /\ timeline = [i \in 1..Len(allDays) |-> [date |-> i, total |-> i]]
  /\ cs = Len(allDays)
  /\ streaks = IF allDays = <<>> THEN <<>> ELSE <<Run(1, Len(allDays), Len(allDays))>>
  /\ top = streaks

NextLong ==
  \/ TakeSample
  \/ MkLeft
  \/ MkRight

\* the carousels of a long series, from the end of its analysis
SpecLong == InitLong /\ [][NextLong]_vars

\* a trophy: its title (its place in the list) and its value
Trophy(k, v) == [title |-> k, value |-> v]

\* the trophy lists the carousel is built from
TrophyLists ==
  UNION {{[k \in 1..n |-> Trophy(k, v[k])] : v \in [1..n -> {0, 1}]} :
         n \in 0..MaxTrophies}

\* the trophies script once its trophies are known
InitCards ==
  /\ GqlIdle
  /\ token = TRUE
  /\ pc = "pages"
  /\ trophies \in TrophyLists
  /\ pages = <<>>
  /\ slides = <<>>
  /\ totalDur = 0
  /\ FlowIdle
  /\ now = 0
  /\ createdAt = 0
  /\ cursor = 0
  /\ win = <<>>
  /\ calendar = <<>>
  /\ written = FALSE
  /\ allDays = <<>>
  /\ byDate = <<>>
  /\ days = <<>>
  /\ timeline = <<>>
  /\ cs = 0
  /\ streaks = <<>>
  /\ top = <<>>
  /\ sample = <<>>
  /\ mkLeft = <<>>
  /\ mkRight = <<>>
  /\ repoPages = <<>>
  /\ starSum = 0
  /\ next = NULL
  /\ asked = <<>>

\* const pages = []; for (...) pages.push(...)
ChunkPages ==
  /\ pc = "pages"
  /\ pages' = ChunkLoop(trophies, 0, <<>>)
  /\ pc' = "slides"
  /\ UNCHANGED <<trophies, slides, totalDur>>
  /\ UNCHANGED <<sample, mkLeft, mkRight, flowVars>>
  /\ UNCHANGED <<now, allDays, byDate, days, timeline, cs, streaks, top>>
  /\ UNCHANGED <<gqlVars, scriptVars, starVars>>

\* let slides = ""; pages.forEach(...)
BuildSlides ==
  /\ pc = "slides"
  /\ slides' = Slides(pages)
  /\ pc' = "totalDur"
  /\ UNCHANGED <<trophies, pages, totalDur>>
  /\ UNCHANGED <<sample, mkLeft, mkRight, flowVars>>
  /\ UNCHANGED <<now, allDays, byDate, days, timeline, cs, streaks, top>>
  /\ UNCHANGED <<gqlVars, scriptVars, starVars>>

\* const totalDur = (pages.length * 3).toFixed(2)
SetTotalDur ==
  /\ pc = "totalDur"
  /\ totalDur' = TotalDur(pages)
  /\ pc' = "svg"
  /\ UNCHANGED <<trophies, pages, slides>>
  /\ UNCHANGED <<sample, mkLeft, mkRight, flowVars>>
  /\ UNCHANGED <<now, allDays, byDate, days, timeline, cs, streaks, top>>
  /\ UNCHANGED <<gqlVars, scriptVars, starVars>>

NextCards ==
  \/ ChunkPages
  \/ BuildSlides
  \/ SetTotalDur

\* the trophy carousel, for any list of trophies
SpecCards == InitCards /\ [][NextCards]_vars

\* const { current: streakCurrent, longest: streakLongest } = streaks(days),
\* called on the series the streak script has analysed
CrimsonStreaks ==
  /\ pc = "done"
  /\ streakCurrent' = FlowStreaks(days).current
  /\ streakLongest' = FlowStreaks(days).longest
  /\ pc' = "flow"
  /\ UNCHANGED <<sample, mkLeft, mkRight, cardVars>>
  /\ UNCHANGED <<now, allDays, byDate, days, timeline, cs, streaks, top>>
  /\ UNCHANGED <<gqlVars, scriptVars, starVars>>

NextFlow ==
  \/ Next
  \/ CrimsonStreaks

\* both streak computations run on the same sorted, gap-free series
SpecFlow == InitSeries /\ [][NextFlow]_vars

\* a run of either script
InitScripts == InitScript \/ InitTrophies

NextScripts == NextScript \/ NextTrophies

SpecScripts == InitScripts /\ [][NextScripts]_vars

\* any collection of samples: any order, duplicate dates, missing days
Spec == Init /\ [][Next]_vars

\* the samples as the calendar query returns them: sorted, one per day
SpecSeries == InitSeries /\ [][Next]_vars

\* inputs that hold an invalid sample
SpecInvalid == InitInvalid /\ [][Next]_vars

\* the worked example of the five days
SpecExample == InitExample /\ [][Next]_vars

TypeOK ==
  /\ pc \in {"merge", "sort", "timeline", "cs", "streaks", "top", "done", "threw",
             "call", "await", "token", "who", "whoAwait", "loop", "winAwait",
             "left", "right", "write", "end", "tToken", "tWho", "tWhoAwait",
             "stars", "starsAwait", "totals", "totalsAwait",
             "pages", "slides", "totalDur", "svg", "flow"}
  /\ gqlPc \in {"idle", "fetching", "backoff", "returned", "threw"}
  /\ attempt \in 1..MAX_ATTEMPTS
  /\ inflight \in 0..1
  /\ cs \in 0..Len(days)
  /\ Len(timeline) \in {0, Len(days)}

(* ----------------------- vocabulary of the claims --------------------- *)

Normalized == pc \notin {"merge", "sort"}
TimelineDone == pc \notin {"merge", "sort", "timeline"}
CsDone == pc \notin {"merge", "sort", "timeline", "cs"}
\* the scan has just ended (cs is not written again)
CsScanned == pc = "streaks"
StreaksDone == pc \in {"top", "done"}
Done == pc = "done"

Idx(s) == 1..Len(s)

RECURSIVE SumOver(_, _)
\* the sum of the counts of the samples of s at the indices in I
SumOver(s, I) ==
  IF I = {} THEN 0
  ELSE LET k == CHOOSE k \in I : TRUE IN s[k].count + SumOver(s, I \ {k})

\* the samples not dated after now, in series order
Eligible(ds, nw) == SelectSeq(ds, LAMBDA d : DateSec(d.date) <= nw)

\* the index in ds of the sample dated d
At(ds, d) == CHOOSE k \in Idx(ds) : ds[k].date = d

\* the counts of the last k samples of s are all positive
TailPositive(s, k) == \A j \in (Len(s) - k + 1)..Len(s) : s[j].count > 0

\* the number of positive samples at the end of s
TrailingPositives(s) ==
  CHOOSE k \in 0..Len(s) :
    /\ TailPositive(s, k)
    /\ k < Len(s) => s[Len(s) - k].count = 0

\* the number of whole days from date a to date b
DaysBetween(a, b) == (DateSec(b) - DateSec(a)) \div SEC_PER_DAY

(* ------------------------------ claims -------------------------------- *)

\* C1: normalize yields exactly one entry per distinct input date (none added,
\* none dropped), each entry's count is the sum of the counts of the input
\* samples with that date, and the entries are in strictly ascending date order.
C1_NormalizeMergesAndSorts ==
  Normalized =>
    /\ {days[k].date : k \in Idx(days)} = {allDays[k].date : k \in Idx(allDays)}
    /\ \A k \in Idx(days) :
         days[k].count =
           SumOver(allDays, {j \in Idx(allDays) : allDays[j].date = days[k].date})
    /\ \A j, k \in Idx(days) : j < k => days[j].date < days[k].date

\* an input with a duplicated date (both counts positive) and out of order
C1_Witness ==
  /\ Normalized
  /\ \E i, j \in Idx(allDays) :
       /\ i < j
       /\ allDays[i].date = allDays[j].date
       /\ allDays[i].count > 0
       /\ allDays[j].count > 0
  /\ \E i, j \in Idx(allDays) : i < j /\ allDays[i].date > allDays[j].date
  /\ Len(days) = 2

\* C2: the cumulative timeline has one point per sample of the normalized
\* series, the i-th point carries the i-th sample's date, and its total is the
\* sum of the counts of the samples 1..i.
C2_TimelineIsPrefixSum ==
  TimelineDone =>
    /\ Len(timeline) = Len(days)
    /\ \A i \in Idx(days) :
         /\ timeline[i].date = days[i].date
         /\ timeline[i].total = SumOver(days, 1..i)

\* three samples, each adding to the running sum
C2_Witness ==
  /\ TimelineDone
  /\ Len(days) = 3
  /\ \A i \in Idx(days) : days[i].count > 0
  /\ timeline[3].total = 3

\* the increments of the timeline: its first total, then each total less the
\* one before it
Delta(i) == IF i = 1 THEN timeline[1].total ELSE timeline[i].total - timeline[i - 1].total

RECURSIVE SumDeltas(_)
SumDeltas(i) == IF i = 0 THEN 0 ELSE Delta(i) + SumDeltas(i - 1)

\* C3: the sum of the deltas of the cumulative timeline, which is its last
\* total (0 when it is empty), equals the sum of the input counts, before and
\* after the duplicates are merged.
C3_DeltasSumToInput ==
  TimelineDone =>
    /\ SumDeltas(Len(timeline)) = SumOver(allDays, Idx(allDays))
    /\ SumDeltas(Len(timeline)) = SumOver(days, Idx(days))
    /\ SumDeltas(Len(timeline)) =
         (IF timeline = <<>> THEN 0 ELSE timeline[Len(timeline)].total)

\* duplicates were merged and a later day follows them
C3_Witness ==
  /\ TimelineDone
  /\ Len(allDays) = 3
  /\ Len(days) = 2
  /\ timeline[2].total = 3

\* C4: the current streak is the number of consecutive samples with count > 0
\* met from the latest sample not after now backward, before the first sample
\* with count = 0; it is 0 when the latest eligible sample has count = 0.
C4_CurrentStreakCountsBack ==
  CsDone =>
    LET e == Eligible(days, now)
        n == Len(e)
    IN  /\ cs \in 0..n
        /\ TailPositive(e, cs)
        /\ cs < n => e[n - cs].count = 0
        /\ (n > 0 /\ e[n].count = 0) => cs = 0

\* a streak of one, stopped by a zero sample that has a positive one before it
C4_Witness ==
  /\ CsDone
  /\ cs = 1
  /\ Len(Eligible(days, now)) = 3
  /\ days[2].count = 0
  /\ days[1].count > 0

\* the series ds with the counts of the samples after nw replaced by f
Recount(ds, nw, f) ==
  [k \in Idx(ds) |-> IF DateSec(ds[k].date) > nw THEN Sample(ds[k].date, f[k]) ELSE ds[k]]

\* C5: the samples dated strictly after now are ignored: the current streak is
\* that of the series without them, whatever their counts are.
C5_FutureSamplesIgnored ==
  CsScanned =>
    /\ cs = TrailingPositives(Eligible(days, now))
    /\ \A f \in [Idx(days) -> 0..MaxCount] :
         CurrentStreak(Recount(days, now, f), now) = cs

\* a positive and a zero sample after now, and a streak counted before them
C5_Witness ==
  /\ CsDone
  /\ cs >= 1
  /\ \E k \in Idx(days) : DateSec(days[k].date) > now /\ days[k].count = 0
  /\ \E k \in Idx(days) : DateSec(days[k].date) > now /\ days[k].count > 0

\* the input in the order given by the permutation f of its indices
Permuted(s, f) == [i \in Idx(s) |-> s[f[i]]]

\* C6: the current streak does not depend on the order of the raw input: every
\* ordering of the same samples, normalized and scanned with the same now,
\* gives the same number.
C6_PermutationInvariant ==
  CsScanned =>
    \A f \in Permutations(Idx(allDays)) :
      CurrentStreak(SortByDate(MergeLoop(Permuted(allDays, f), 1, <<>>)), now) = cs

\* an input out of date order whose order would matter to an unsorted scan
C6_Witness ==
  /\ CsDone
  /\ cs = 1
  /\ Len(allDays) = 3
  /\ Len(days) = 3
  /\ allDays[1].date > allDays[3].date
  /\ allDays[1].count > 0
  /\ allDays[3].count = 0

\* C7: the recorded runs are exactly the maximal runs of positive samples:
\* each run starts at its first sample, ends at its last positive sample, spans
\* len adjacent positive samples, has a zero sample (or the edge of the series)
\* on either side, and every positive sample lies in exactly one run.
C7_RunsAreMaximal ==
  StreaksDone =>
    /\ \A r \in Idx(streaks) :
         /\ \E i, j \in Idx(days) :
              /\ days[i].date = streaks[r].start
              /\ days[j].date = streaks[r].end
              /\ j - i + 1 = streaks[r].len
              /\ \A k \in i..j : days[k].count > 0
              /\ i > 1 => days[i - 1].count = 0
              /\ j < Len(days) => days[j + 1].count = 0
    /\ \A k \in Idx(days) :
         days[k].count > 0 =>
           Cardinality({r \in Idx(streaks) :
                          /\ streaks[r].start <= days[k].date
                          /\ days[k].date <= streaks[r].end}) = 1

\* two runs, the first closed by a zero sample, the second longer than a day
C7_Witness ==
  /\ StreaksDone
  /\ Len(streaks) = 2
  /\ streaks[1].len = 2
  /\ streaks[2].len = 3
  /\ days[Len(days)].count = 0

\* the recorded runs that the ranking returns
InTop(r) == \E t \in Idx(top) : top[t] = r

\* C8: the ranking returns at most TOP_N runs (all of them when there are
\* fewer), longest first, runs of equal length in chronological order, and no
\* run left out is longer than a returned one.
C8_TopIsRanked ==
  Done =>
    /\ Len(top) <= TOP_N
    /\ Len(top) = (IF Len(streaks) < TOP_N THEN Len(streaks) ELSE TOP_N)
    /\ \A t \in Idx(top) : \E r \in Idx(streaks) : streaks[r] = top[t]
    /\ \A i, j \in Idx(top) :
         i < j =>
           /\ top[i].len >= top[j].len
           /\ top[i].len = top[j].len => top[i].start < top[j].start
    /\ \A r \in Idx(streaks), t \in Idx(top) :
         ~InTop(streaks[r]) =>
           /\ streaks[r].len <= top[t].len
           /\ streaks[r].len = top[t].len => top[t].start < streaks[r].start

\* four runs: the longest is not the first, two equal ones follow it and one
\* is left out
C8_Witness ==
  /\ Done
  /\ Len(streaks) = 4
  /\ streaks[1].len = 1
  /\ streaks[2].len = 2
  /\ top[1] = streaks[2]
  /\ top[2] = streaks[1]
  /\ top[3] = streaks[3]

\* C9: a run still open at the end of the series (last sample positive) is
\* recorded as the last run, ending at the last sample's date, with its full
\* length, a single day included.
C9_OpenRunCloses ==
  (StreaksDone /\ days # <<>> /\ days[Len(days)].count > 0) =>
    /\ streaks # <<>>
    /\ LET r == streaks[Len(streaks)]
           n == Len(days)
       IN  /\ r.end = days[n].date
           /\ r.len = TrailingPositives(days)
           /\ r.start = days[n - r.len + 1].date

\* a single positive day at the very end, after a zero day and an earlier run
C9_Witness ==
  /\ StreaksDone
  /\ Len(days) >= 3
  /\ days[Len(days)].count > 0
  /\ days[Len(days) - 1].count = 0
  /\ Len(streaks) = 2
  /\ streaks[2].len = 1
  /\ streaks[2].start = streaks[2].end

\* C10: every returned run covers consecutive calendar days only: its length
\* is the number of days from its start date to its end date, plus one, also
\* for inputs with missing days.
C10_LengthIsDaySpan ==
  Done => \A t \in Idx(top) : top[t].len = DaysBetween(top[t].start, top[t].end) + 1

\* C11: a missing calendar day between two samples ends the current streak
\* like a day with count = 0: the samples counted are dated on consecutive days.
C11_GapEndsCurrentStreak ==
  CsDone =>
    LET e == Eligible(days, now)
        n == Len(e)
    IN  \A k \in (n - cs + 1)..(n - 1) : DaysBetween(e[k].date, e[k + 1].date) = 1

\* C12: for empty input the timeline is empty, the current streak is 0, no run
\* is recorded or returned, and every computation runs to its end.
C12_EmptyInput ==
  allDays = <<>> =>
    /\ timeline = <<>>
    /\ cs = 0
    /\ streaks = <<>>
    /\ top = <<>>
    /\ Done \/ ENABLED Next

\* the analysis of the empty input has run to its end
C12_Witness == Done /\ allDays = <<>>

\* the input is not empty and every sample has count = 0
AllZero == allDays # <<>> /\ \A k \in Idx(allDays) : allDays[k].count = 0

\* C13 as stated: for an all-zero input the three results are those of the
\* empty input: empty timeline, current streak 0, no longest streak.
C13_AllZeroLikeEmpty ==
  (Done /\ AllZero) => (timeline = <<>> /\ cs = 0 /\ top = <<>>)

\* C13 as amended: for an all-zero input the current streak is 0 and no run is
\* recorded or returned, as for empty input; the timeline has one point per
\* distinct date, each with total 0.
C13_AllZeroResults ==
  (Done /\ AllZero) =>
    /\ cs = 0
    /\ streaks = <<>>
    /\ top = <<>>
    /\ Len(timeline) = Cardinality({allDays[k].date : k \in Idx(allDays)})
    /\ \A i \in Idx(timeline) : timeline[i].total = 0

\* three zero samples on two dates, all of them not after now
C13_Witness ==
  /\ Done
  /\ AllZero
  /\ Len(allDays) = 3
  /\ Len(timeline) = 2
  /\ Len(Eligible(days, now)) = 2

\* C16: for the days 1..5 with counts 1, 0, 2, 3, 0 and now on day 5, the
\* current streak is 0 and the first returned run is the one from day 3 to
\* day 4, of length 2; the run of day 1 ranks after it.
C16_WorkedExample ==
  Done =>
    /\ cs = 0
    /\ top = <<Run(3, 4, 2), Run(1, 1, 1)>>

\* the example fetched out of order has been analysed
C16_Witness ==
  /\ Done
  /\ allDays[1] = Sample(5, 0)
  /\ allDays[5] = Sample(1, 1)
  /\ days = ExampleDays

\* the analysis has produced a series, a timeline, a streak or a ranking
Analysed == pc \in {"timeline", "cs", "streaks", "top", "done"}

\* the run has ended with an error thrown to the caller
Threw == pc = "threw"

\* C14: when a sample's date does not parse, normalize fails and the
\* computation aborts: no series, timeline, streak or ranking is produced.
C14_BadDateAborts ==
  (\E k \in Idx(allDays) : ~ParseOk(allDays[k].date)) => ~Analysed

\* C15: when a sample's count is negative, an error is raised and no total or
\* streak is computed from the sample.
C15_BadCountAborts ==
  (\E k \in Idx(allDays) : allDays[k].count < 0) => (~Analysed /\ timeline = <<>>)

\* the call has ended, by returning the data or by throwing
GqlEnded == gqlPc \in {"returned", "threw"}

\* C17: a gql call sends at most five requests; a request after the first is
\* sent only after a reply of status 500 or more to an attempt before the
\* fifth; a first reply below 500 leaves exactly one request; the wait before
\* request k + 1 is k * 400 ms; and the call always ends
C17_RetryBounded ==
  /\ [](requests <= MAX_ATTEMPTS)
  /\ [](\A k \in 1..Len(replies) :
          k < requests => (replies[k].status >= 500 /\ k < MAX_ATTEMPTS))
  /\ []((Len(replies) >= 1 /\ replies[1].status < 500) => requests = 1)
  /\ [](gqlPc = "fetching" => Len(waits) = requests - 1)
  /\ [](\A k \in 1..Len(waits) : waits[k] = k * 400)
  /\ <>GqlEnded

C17_Witness ==
  /\ gqlPc = "threw"
  /\ requests = 5
  /\ [k \in Idx(replies) |-> replies[k].status] = <<500, 503, 500, 503, 503>>
  /\ waits = <<400, 800, 1200, 1600>>

\* the script is at or past its first statement after the fetch loop
PastFetchLoop ==
  pc \in {"merge", "sort", "timeline", "cs", "streaks", "top", "done",
          "left", "right", "write", "end"}

\* C18: in the streak script the analysis runs only once the window loop has
\* ended with no window left to fetch and no request outstanding; at most one
\* request is outstanding at any time; allDays does not change from the first
\* statement of the analysis on; and the file is written only after the
\* analysis and the carousels
C18_AnalysisAfterFetches ==
  /\ [](PastFetchLoop => (cursor >= now /\ inflight = 0 /\ gqlPc = "idle"))
  /\ [](inflight <= 1)
  /\ [][PastFetchLoop => allDays' = allDays]_vars
  /\ [](written => (pc = "end" /\ Len(mkLeft) = Len(sample)))
  /\ [][written' /\ ~written => pc = "write"]_vars

C18_Witness ==
  /\ written
  /\ Len(allDays) = 4
  /\ cursor = AddDays(DateSec(1), 3 * WINDOW_DAYS)
  /\ top # <<>>

\* the frames of a carousel whose opacity value is 1 at key time k (from 0)
VisibleAt(frames, k) == {j \in 1..Len(frames) : frames[j].values[k + 1] = 1}

\* at each key time of a carousel at most one frame has opacity value 1
NoOverlap(frames, slots) ==
  \A k \in 0..slots : Cardinality(VisibleAt(frames, k)) <= 1

\* both carousels have been built
CarouselsBuilt == pc \in {"write", "end"}

\* C19: in the left carousel (N = the number of sampled points) and in the
\* right carousel (N = max(1, the number of top runs)), at every key time k
\* in 0..N at most one frame has opacity value 1
C19_NoOverlap ==
  CarouselsBuilt =>
    /\ NoOverlap(mkLeft, Len(sample))
    /\ NoOverlap(mkRight, Max(RIGHT_MIN_FRAMES, Len(top)))

\* the star loop is running or has ended
InStarLoop == pc \in {"stars", "starsAwait"}
StarLoopEnded == pc \in {"totals", "totalsAwait", "end"}

RECURSIVE StarsOfNodes(_)
\* the stars of a page's nodes, a missing stargazerCount counting as 0
StarsOfNodes(nodes) ==
  IF nodes = <<>> THEN 0
  ELSE (IF Head(nodes) = MISSING THEN 0 ELSE Head(nodes)) + StarsOfNodes(Tail(nodes))

RECURSIVE StarsOfPages(_)
\* the stars of all the nodes of a sequence of pages
StarsOfPages(pgs) ==
  IF pgs = <<>> THEN 0
  ELSE StarsOfNodes(Head(pgs).nodes) + StarsOfPages(Tail(pgs))

\* C20: the star total is the sum of stargazerCount (missing as 0) over the
\* nodes of the pages served, each added once; the first request carries no
\* cursor and each later one the endCursor of the page before; and the loop
\* ends after the first page whose hasNextPage is false
C20_StarTotal ==
  LET n == Len(repoPages)
  IN /\ (InStarLoop \/ StarLoopEnded) =>
          /\ starSum = StarsOfPages(repoPages)
          /\ \A k \in Idx(asked) :
                asked[k] = IF k = 1 THEN NULL ELSE repoPages[k - 1].endCursor
          /\ \A k \in 1..(n - 1) : repoPages[k].hasNextPage
     /\ (pc = "stars") => (Len(asked) = n /\ (n > 0 => repoPages[n].hasNextPage))
     /\ StarLoopEnded => (n >= 1 /\ Len(asked) = n /\ ~repoPages[n].hasNextPage)

C20_Witness ==
  /\ written
  /\ Len(repoPages) = 2
  /\ repoPages[1].nodes = <<MISSING>>
  /\ repoPages[2].nodes = <<1>>
  /\ starSum = 1
  /\ asked = <<NULL, 1>>

\* no window has been computed yet
NoWindow == DOMAIN win = {}

\* the length of a fetch window
WindowSec == WINDOW_DAYS * SEC_PER_DAY

\* ceil(a / b) for a >= 0, b > 0
CeilDiv(a, b) == (a + b - 1) \div b

\* the number of windows fetched so far: the cursor moves one window per fetch
Fetches == (cursor - UtcMidnight(createdAt)) \div WindowSec

\* the run of the script is over
ScriptOver == pc \in {"end", "threw"}

\* C21: the first window starts at UTC midnight of the creation day, each
\* later window starts where the window before ended, each window spans at
\* most 365 days and ends no later than now, the last window ends exactly at
\* now, the loop ends after ceil((now - start) / 365 days) fetches, and
\* the loop always ends
C21_WindowsCoverLifetime ==
  /\ [](~NoWindow => (/\ win.from < win.to
                      /\ win.to - win.from <= WindowSec
                      /\ win.to <= now))
  /\ [][(NoWindow /\ ~NoWindow') => win'.from = UtcMidnight(createdAt)]_vars
  /\ [][(~NoWindow /\ win' # win) => win'.from = win.to]_vars
  /\ [](PastFetchLoop =>
          (/\ ~NoWindow
           /\ win.to = now
           /\ cursor = UtcMidnight(createdAt) + Fetches * WindowSec
           /\ Fetches = CeilDiv(now - UtcMidnight(createdAt), WindowSec)))
  /\ <>(PastFetchLoop \/ pc = "threw")

C21_Witness ==
  /\ pc = "merge"
  /\ createdAt = DateSec(1) + SEC_PER_DAY \div 2
  /\ Fetches = 3
  /\ win = [from |-> DateSec(1 + 2 * WINDOW_DAYS), to |-> now]

\* the merged series of the script has been computed
SeriesMerged ==
  pc \in {"timeline", "cs", "streaks", "top", "done", "left", "right", "write", "end"}

\* the API's count for a day of the calendar
ApiCount(date) ==
  LET j == CHOOSE j \in Idx(calendar) : calendar[j].date = date
  IN calendar[j].count

\* the API's counts of the days from the creation day through today, summed
ApiTotal ==
  SumOver(calendar, {j \in Idx(calendar) : calendar[j].date <= DayOf(now)})

\* C22: each day of the merged series carries the API's count for that day,
\* the day on which a window ends and the next begins included, and the
\* final cumulative total is the sum of the API's daily counts
C22_EachDayCountedOnce ==
  SeriesMerged =>
    /\ \A k \in Idx(days) : days[k].count = ApiCount(days[k].date)
    /\ (pc # "timeline" /\ timeline # <<>>) =>
          timeline[Len(timeline)].total = ApiTotal

\* the last response the call received
LastReply == replies[Len(replies)]

\* the call has ended on a response that is an error: a status that is not
\* OK (a 5xx status on the fifth attempt included) or an errors field
CallEndedInError ==
  /\ gqlPc \in {"returned", "threw"}
  /\ ~IsOk(LastReply.status) \/ LastReply.errors

\* the script is at an await of a gql call
AtAwait == pc \in {"whoAwait", "winAwait", "tWhoAwait", "starsAwait", "totalsAwait"}

\* C23: once a gql call has ended in an error, the only step either script
\* takes is the throw that ends it: no later statement runs, no further
\* request is sent and the file is never written; a file is written only
\* after a call that returned its data
C23_ErrorStopsScript ==
  /\ [](CallEndedInError => (~written /\ (AtAwait \/ pc = "threw")))
  /\ [][CallEndedInError =>
          (/\ pc' = "threw"
           /\ UNCHANGED <<gqlVars, scriptVars, renderVars, starVars>>
           /\ UNCHANGED <<now, allDays, byDate, days, timeline, cs, streaks, top>>)]_vars
  /\ [][(~written /\ written') =>
          (pc \in {"write", "totalsAwait"} /\ ~CallEndedInError)]_vars

\* a streak run ended by an errors field in the second window's response
C23_Witness ==
  /\ pc = "threw"
  /\ win # <<>>
  /\ cursor = AddDays(DateSec(1), WINDOW_DAYS)
  /\ LastReply = Reply(200, TRUE)
  /\ ~written

\* C24: without the access token a script sends no request and writes no
\* file: it is at its token check or has aborted there
C24_NoTokenNoRequest ==
  ~token =>
    /\ pc \in {"token", "tToken", "threw"}
    /\ gqlPc = "idle"
    /\ requests = 0
    /\ inflight = 0
    /\ ~written

C24_Witness ==
  /\ ~token
  /\ pc = "threw"
  /\ requests = 0
  /\ ~written

\* the sample has been taken
Sampled == pc = "left"

\* the position in the timeline of the point p (dates are distinct)
IndexIn(tl, p) == CHOOSE k \in Idx(tl) : tl[k] = p

\* r is x = num / den rounded to the nearest integer, halves up
IsRounded(r, num, den) == 2 * den * r - den <= 2 * num /\ 2 * num < 2 * den * r + den

\* C25: the sample is the timeline itself up to 80 points; beyond, it has 80
\* points, point i (from 0) being the one at index round(i * (n - 1) / 79),
\* the indices are strictly increasing, the first is 0 and the last n - 1
C25_FrameSampling ==
  Sampled =>
    LET n == Len(timeline)
        at(i) == IndexIn(timeline, sample[i + 1]) - 1
    IN IF n <= 80 THEN sample = timeline
       ELSE /\ Len(sample) = 80
            /\ \A i \in 0..79 : sample[i + 1] \in {timeline[k] : k \in Idx(timeline)}
            /\ \A i \in 0..79 : IsRounded(at(i), i * (n - 1), 79)
            /\ \A i \in 0..78 : at(i) < at(i + 1)
            /\ at(0) = 0
            /\ at(79) = n - 1

C25_Witness ==
  /\ Sampled
  /\ Len(timeline) = 100
  /\ Len(sample) = 80
  /\ sample[2] = timeline[2]
  /\ sample[3] = timeline[4]
  /\ sample[80] = timeline[100]

\* the trophy carousel has been laid out
CardsBuilt == pc = "svg"

RECURSIVE Concat(_)
\* the pages one after the other
Concat(pgs) == IF pgs = <<>> THEN <<>> ELSE Head(pgs) \o Concat(Tail(pgs))

\* the places (page, position) at which the trophy t is shown
PlacesOf(t) ==
  {<<p, j>> \in Idx(slides) \X (1..PAGE_SIZE) :
     j <= Len(slides[p].cards) /\ slides[p].cards[j] = t}

\* C26: the pages, in order, are the trophy list cut into pieces of one or
\* two; every trophy is shown on exactly one slide; slide i (from 0) begins
\* at 3 * i seconds and lasts 3 seconds, so each slide begins when the one
\* before ends; the total duration is 3 seconds times the number of pages
C26_PagesOfTwo ==
  CardsBuilt =>
    /\ Concat(pages) = trophies
    /\ \A p \in Idx(pages) : Len(pages[p]) \in {1, 2}
    /\ Len(slides) = Len(pages)
    /\ \A p \in Idx(slides) : slides[p].cards = pages[p]
    /\ \A k \in Idx(trophies) : Cardinality(PlacesOf(trophies[k])) = 1
    /\ \A p \in Idx(slides) :
         /\ slides[p].begin = 300 * (p - 1)
         /\ slides[p].dur = 300
         /\ p > 1 => slides[p].begin = slides[p - 1].begin + slides[p - 1].dur
    /\ totalDur = 300 * Len(pages)

\* seven trophies: three pages of two and a last page of one
C26_Witness ==
  /\ CardsBuilt
  /\ Len(trophies) = 7
  /\ Len(pages) = 4
  /\ Len(pages[4]) = 1
  /\ totalDur = 1200

\* both streak computations have run
FlowDone == pc = "flow"

\* no sample of the series is dated after now
NoneAfterNow == \A k \in Idx(days) : ~IsAfter(days[k].date, now)

\* C27: on a sorted series with no sample after now, streaks(days) of the
\* crimson-flow script gives the streak script's cs as current and the
\* length of its top-ranked run as longest, 0 when there is no run
C27_FlowAgrees ==
  (FlowDone /\ NoneAfterNow) =>
    /\ streakCurrent = cs
    /\ streakLongest = IF top = <<>> THEN 0 ELSE top[1].len

C27_Witness ==
  /\ FlowDone
  /\ NoneAfterNow
  /\ Len(streaks) = 3
  /\ streakCurrent = 2
  /\ streakLongest = 3
  /\ top[1].len = 3

\* C28: the current streak is at most the length of the top-ranked run, and
\* is 0 when no run is recorded, samples after now being skipped or not
C28_CurrentWithinLongest ==
  Done => IF top = <<>> THEN cs = 0 /\ streaks = <<>> ELSE cs <= top[1].len

\* a sample after now is skipped and the current streak is the whole run
C28_Witness ==
  /\ Done
  /\ \E k \in Idx(days) : IsAfter(days[k].date, now)
  /\ cs = 2
  /\ top[1].len = 2

RECURSIVE SumLen(_)
\* the lengths of the runs of rs, summed
SumLen(rs) == IF rs = <<>> THEN 0 ELSE Head(rs).len + SumLen(Tail(rs))

\* the samples of the series with a contribution
PositiveDays == {k \in Idx(days) : days[k].count > 0}

\* C29: as recorded by the scan, before the ranking, every run has len >= 1
\* and does not end before it starts, each run starts after the run before
\* it has ended, and the lengths add up to the number of samples with
\* count > 0
C29_RunsDisjointInOrder ==
  StreaksDone =>
    /\ \A k \in Idx(streaks) :
         /\ streaks[k].len >= 1
         /\ DateSec(streaks[k].start) <= DateSec(streaks[k].end)
    /\ \A k \in 1..(Len(streaks) - 1) :
         DateSec(streaks[k + 1].start) > DateSec(streaks[k].end)
    /\ SumLen(streaks) = Cardinality(PositiveDays)

C29_Witness ==
  /\ pc = "top"
  /\ Len(streaks) = 3
  /\ streaks[1] = Run(1, 2, 2)
  /\ streaks[2] = Run(4, 4, 1)
  /\ streaks[3] = Run(6, 8, 3)

\* C30: with counts that are not negative, each total of the timeline is a
\* natural number, no total is below the one before it, and two adjacent
\* totals are equal exactly when the later sample has count 0
C30_TimelineMonotone ==
  (TimelineDone /\ \A k \in Idx(days) : days[k].count >= 0) =>
    /\ Len(timeline) = Len(days)
    /\ \A k \in Idx(timeline) : timeline[k].total \in Nat
    /\ \A k \in 2..Len(timeline) :
         /\ timeline[k - 1].total <= timeline[k].total
         /\ (timeline[k - 1].total = timeline[k].total) <=> (days[k].count = 0)

C30_Witness ==
  /\ pc = "cs"
  /\ Len(timeline) = 4
  /\ timeline[1].total = 1
  /\ timeline[2].total = 1
  /\ timeline[3].total = 2
  /\ timeline[4].total = 2

====
